---------------------------- MODULE Spec2Model ----------------------------
(***************************************************************************)
(* Android workbench: an interactive menu that shells out to adb and       *)
(* fastboot.  Three variants of the program are modelled side by side:     *)
(*   "v01"  src/android_workbench.py                                       *)
(*   "v12"  src/android-workbench-v1.2.py                                  *)
(*   "ai"   src/android_workbench_ai.py                                    *)
(* Text is a sequence of one-character strings wherever the code looks at  *)
(* characters (strip, split, splitlines, isdigit, int, lower); a finished  *)
(* token is a TLA+ string.  Optional[str] is <<>> (None) or <<s>>.         *)
(***************************************************************************)
EXTENDS Integers, Sequences, FiniteSets, TLC

VARIABLES
    variant,    \* which of the three programs runs
    text,       \* stdout of `adb devices -l` (characters)
    serials,    \* what parse_adb_devices made of text
    argSerial,  \* the --serial startup argument, Optional[str]
    pc,         \* where the process is
    ctx,        \* Ctx: [serial, dry_run]
    action,     \* the handler dispatched in this loop iteration
    inputs,     \* operator answers read in this iteration: <<[prompt, raw]>>
    calls,      \* child processes invoked in this iteration, in order
    printed,    \* what the iteration printed, in order
    fs,         \* file-system effects of this iteration, in order
    exc         \* the exception that left the handler, "none" if none

vars == <<variant, text, serials, argSerial, pc, ctx, action, inputs, calls,
          printed, fs, exc>>

Variants == {"v01", "v12", "ai"}

-----------------------------------------------------------------------------
(* Python string primitives the code relies on.                            *)

Whitespace == {" ", "\t", "\n"}

Digits == {"0", "1", "2", "3", "4", "5", "6", "7", "8", "9"}

\* Characters for which str.isdigit() is True although int() rejects them;
\* "<sup2>" stands for the single character U+00B2 (superscript two).
NonDecimalDigits == {"<sup2>"}

RECURSIVE Str(_)
Str(cs) == IF cs = <<>> THEN "" ELSE Head(cs) \o Str(Tail(cs))

RECURSIVE PyLstrip(_)
PyLstrip(s) ==
    IF s = <<>> THEN <<>>
    ELSE IF Head(s) \in Whitespace THEN PyLstrip(Tail(s)) ELSE s

RECURSIVE PyRstrip(_)
PyRstrip(s) ==
    IF s = <<>> THEN <<>>
    ELSE IF s[Len(s)] \in Whitespace THEN PyRstrip(SubSeq(s, 1, Len(s) - 1))
    ELSE s

PyStrip(s) == PyRstrip(PyLstrip(s))

\* the lines of s from position i on: each ends at the next newline or at
\* the end of the text, and a final newline opens no further line
RECURSIVE PySplitlinesFrom(_, _)
PySplitlinesFrom(s, i) ==
    IF i > Len(s) THEN <<>>
    ELSE LET j == CHOOSE k \in i..(Len(s) + 1) :
                      /\ k = Len(s) + 1 \/ s[k] = "\n"
                      /\ \A m \in i..(k - 1) : s[m] # "\n"
         IN  <<SubSeq(s, i, j - 1)>> \o PySplitlinesFrom(s, j + 1)

PySplitlines(s) == PySplitlinesFrom(s, 1)

RECURSIVE PySplitFrom(_, _, _)
PySplitFrom(s, i, cur) ==
    IF i > Len(s) THEN (IF cur = <<>> THEN <<>> ELSE <<Str(cur)>>)
    ELSE IF s[i] \in Whitespace
         THEN (IF cur = <<>> THEN <<>> ELSE <<Str(cur)>>)
              \o PySplitFrom(s, i + 1, <<>>)
         ELSE PySplitFrom(s, i + 1, Append(cur, s[i]))

PySplit(s) == PySplitFrom(s, 1, <<>>)

LowerOf(c) ==
    CASE c = "A" -> "a" [] c = "B" -> "b" [] c = "C" -> "c" [] c = "D" -> "d"
      [] c = "F" -> "f" [] c = "L" -> "l" [] c = "Q" -> "q" [] c = "R" -> "r"
      [] c = "S" -> "s" [] c = "U" -> "u" [] c = "V" -> "v" [] c = "X" -> "x"
      [] c = "Y" -> "y" [] c = "E" -> "e"
      [] OTHER -> c

PyLower(s) == [i \in 1..Len(s) |-> LowerOf(s[i])]

-----------------------------------------------------------------------------
(* parse_adb_devices, once per variant.                                    *)

\* lines = [ln.strip() for ln in output.splitlines() if ln.strip()]
StrippedNonBlank(output) ==
    LET raw == PySplitlines(output)
        stripped == [i \in 1..Len(raw) |-> PyStrip(raw[i])]
    IN  SelectSeq(stripped, LAMBDA ln : ln # <<>>)

\* lines[1:]
AfterHeader(lines) == IF lines = <<>> THEN <<>> ELSE Tail(lines)

RECURSIVE parse_loop_ai(_)
parse_loop_ai(lns) ==
    IF lns = <<>> THEN <<>>
    ELSE LET parts == PySplit(Head(lns))
             rest == parse_loop_ai(Tail(lns))
         IN  IF Len(parts) >= 2 /\ parts[2] = "device"
             THEN <<parts[1]>> \o rest
             ELSE rest

\* a parser that does not skip the header line
parse_adb_devices_keeps_header(output) == parse_loop_ai(StrippedNonBlank(output))

parse_adb_devices_ai(output) == parse_loop_ai(AfterHeader(StrippedNonBlank(output)))

RECURSIVE parse_loop_v12(_)
parse_loop_v12(lns) ==
    IF lns = <<>> THEN <<>>
    ELSE LET parts == PySplit(Head(lns))
             rest == parse_loop_v12(Tail(lns))
         IN  IF Len(parts) < 2 THEN rest
             ELSE IF parts[2] = "device" THEN <<parts[1]>> \o rest
             ELSE rest

parse_adb_devices_v12(output) == parse_loop_v12(AfterHeader(StrippedNonBlank(output)))

\* a loop that takes a line with no state column for a connected device
RECURSIVE parse_loop_v01_lenient(_)
parse_loop_v01_lenient(lns) ==
    IF lns = <<>> THEN <<>>
    ELSE LET parts == PySplit(Head(lns))
             rest == parse_loop_v01_lenient(Tail(lns))
         IN  IF parts = <<>> THEN rest
             ELSE IF Len(parts) = 1 \/ parts[2] = "device" THEN <<parts[1]>> \o rest
             ELSE rest

RECURSIVE parse_loop_v01(_)
parse_loop_v01(lns) ==
    IF lns = <<>> THEN <<>>
    ELSE LET parts == PySplit(Head(lns))
             rest == parse_loop_v01(Tail(lns))
         IN  IF parts = <<>> THEN rest
             ELSE LET serial == parts[1]
                      state == IF Len(parts) > 1 THEN parts[2] ELSE ""
                  IN  IF state = "device" THEN <<serial>> \o rest ELSE rest

parse_adb_devices_v01(output) == parse_loop_v01(AfterHeader(StrippedNonBlank(output)))

parse_adb_devices(v, output) ==
    CASE v = "ai" -> parse_adb_devices_ai(output)
      [] v = "v12" -> parse_adb_devices_v12(output)
      [] v = "v01" -> parse_adb_devices_v01(output)

-----------------------------------------------------------------------------
(* int(s) on an already stripped string: an optional sign and decimal      *)
(* digits; anything else is a ValueError.                                  *)

DigitVal(c) ==
    CASE c = "0" -> 0 [] c = "1" -> 1 [] c = "2" -> 2 [] c = "3" -> 3
      [] c = "4" -> 4 [] c = "5" -> 5 [] c = "6" -> 6 [] c = "7" -> 7
      [] c = "8" -> 8 [] c = "9" -> 9

RECURSIVE DigitsVal(_)
DigitsVal(s) ==
    IF s = <<>> THEN 0
    ELSE 10 * DigitsVal(SubSeq(s, 1, Len(s) - 1)) + DigitVal(s[Len(s)])

AllDecimal(s) == s # <<>> /\ \A i \in 1..Len(s) : s[i] \in Digits

\* [ok |-> FALSE] is ValueError
PyInt(s) ==
    IF s # <<>> /\ Head(s) \in {"-", "+"}
    THEN IF AllDecimal(Tail(s))
         THEN [ok |-> TRUE,
               val |-> IF Head(s) = "-" THEN 0 - DigitsVal(Tail(s))
                       ELSE DigitsVal(Tail(s))]
         ELSE [ok |-> FALSE, val |-> 0]
    ELSE IF AllDecimal(s) THEN [ok |-> TRUE, val |-> DigitsVal(s)]
         ELSE [ok |-> FALSE, val |-> 0]

\* str.isdigit()
PyIsDigit(s) ==
    s # <<>> /\ \A i \in 1..Len(s) : s[i] \in Digits \cup NonDecimalDigits

\* str(n) for an integer n
DigitChar(d) ==
    CASE d = 0 -> "0" [] d = 1 -> "1" [] d = 2 -> "2" [] d = 3 -> "3"
      [] d = 4 -> "4" [] d = 5 -> "5" [] d = 6 -> "6" [] d = 7 -> "7"
      [] d = 8 -> "8" [] d = 9 -> "9"

RECURSIVE NatStr(_)
NatStr(n) == IF n < 10 THEN DigitChar(n) ELSE NatStr(n \div 10) \o DigitChar(n % 10)

PyStr(n) == IF n < 0 THEN "-" \o NatStr(0 - n) ELSE NatStr(n)

\* " ".join(cmd)
RECURSIVE JoinSp(_)
JoinSp(cmd) ==
    IF cmd = <<>> THEN ""
    ELSE IF Len(cmd) = 1 THEN cmd[1]
    ELSE cmd[1] \o " " \o JoinSp(Tail(cmd))

-----------------------------------------------------------------------------
(* Session context and command construction.                               *)

None == <<>>
Some(s) == <<s>>

\* Python truthiness of an Optional[str]: None and "" are both false.
Truthy(o) == o # <<>> /\ o[1] # ""

Ctx(serial) == [serial |-> serial, dry_run |-> FALSE]

adb_base(c) == IF Truthy(c.serial) THEN <<"adb", "-s", c.serial[1]>> ELSE <<"adb">>

\* a base that never names the device
fastboot_base_unscoped(c) == <<"fastboot">>

fastboot_base(c) ==
    IF Truthy(c.serial) THEN <<"fastboot", "-s", c.serial[1]>> ELSE <<"fastboot">>

\* f"{ctx.serial}": None formats as "None"
SerialStr(c) == IF c.serial = <<>> THEN "None" ELSE c.serial[1]

\* datetime.now().strftime(...): one opaque timestamp per run of the model.
TS == "20260101-000000"

REPORT_DIR == "~/scripts/android-reports"
LOG_DIR == "~/scripts/android_logs"
MEDIA_DIR == "~/scripts/android_media"

-----------------------------------------------------------------------------
(* Command runner.  A child ends "ok" (status 0), "nonzero", by "timeout"  *)
(* (capture mode only) or by the operator's "interrupt" (stream mode      *)
(* only).  timeout 0 means no timeout was passed.                          *)

CaptureOutcomes == {"ok", "nonzero", "timeout"}
StreamOutcomes == {"ok", "nonzero", "interrupt"}
RawOutcomes == {"ok", "nonzero"}

\* what a failing child writes to its standard error
StderrText == <<"e", "r", "r">>

\* subprocess.run(cmd, text=True, capture_output=True, check=check, timeout=timeout)
run_capture(cmd, check, timeout, outcome, stdout) ==
    [cmd |-> cmd, mode |-> "capture", check |-> check, timeout |-> timeout,
     outcome |-> outcome, stdout |-> IF outcome = "timeout" THEN <<>> ELSE stdout,
     stderr |-> IF outcome = "nonzero" THEN StderrText ELSE <<>>]

\* subprocess.run(cmd, check=False)
run_stream(cmd, outcome) ==
    [cmd |-> cmd, mode |-> "stream", check |-> FALSE, timeout |-> 0,
     outcome |-> outcome, stdout |-> <<>>, stderr |-> <<>>]

\* the exception subprocess.run raises for a finished call
Raised(call) ==
    CASE call.outcome = "timeout" -> "TimeoutExpired"
      [] call.outcome = "interrupt" -> "KeyboardInterrupt"
      [] call.outcome = "nonzero" /\ call.check -> "CalledProcessError"
      [] OTHER -> "none"

\* A handler's effects: the children it ran, what it printed, what it did to
\* the file system, the answers it read, and the exception that left it.
Eff(c, p, f, i, e) == [calls |-> c, printed |-> p, fs |-> f, inputs |-> i, exc |-> e]

In(prompt, raw) == [prompt |-> prompt, raw |-> raw]

\* input("Press Enter...") and the like: the answer is read and dropped
Pause(prompt) == In(prompt, <<>>)

\* Strict capture calls made one after the other: the calls actually made are
\* those up to and including the first that raises.
RECURSIVE RunStrictFrom(_, _, _, _)
RunStrictFrom(specs, outs, stdout, i) ==
    IF i > Len(specs) THEN <<>>
    ELSE LET call == run_capture(specs[i].cmd, TRUE, specs[i].timeout, outs[i], stdout)
         IN  IF Raised(call) # "none" THEN <<call>>
             ELSE <<call>> \o RunStrictFrom(specs, outs, stdout, i + 1)

RunStrict(specs, outs, stdout) == RunStrictFrom(specs, outs, stdout, 1)

\* a handler that does not look at how its last call ended
LastRaisedIgnored(cs) == "none"

LastRaised(cs) == IF cs = <<>> THEN "none" ELSE Raised(cs[Len(cs)])

\* Outcomes of n calls of which the k-th (if 1 <= k <= n) ends as kind and the
\* earlier ones end ok; later calls are never made.
FailingAt(n, k, kind) == [i \in 1..n |-> IF i = k THEN kind ELSE "ok"]

-----------------------------------------------------------------------------
(* Device selector.                                                        *)

\* return serials[idx - 1] if 1 <= idx <= len(serials) else None
PickIndex(sers, idx) == IF 1 <= idx /\ idx <= Len(sers) THEN Some(sers[idx]) ELSE None

RECURSIVE PickListing(_, _)
PickListing(sers, i) ==
    IF i > Len(sers) THEN <<>>
    ELSE <<" " \o PyStr(i) \o ") " \o sers[i]>> \o PickListing(sers, i + 1)

\* a selector that asks the operator whenever any device qualifies
pick_adb_serial_always_asks(v, outcome, stdout, raw) ==
    LET call == run_capture(<<"adb", "devices", "-l">>, TRUE, 10, outcome, stdout)
        sers == parse_adb_devices(v, call.stdout)
        choice == PyStrip(raw)
        listing == <<"Multiple ADB devices detected:">> \o PickListing(sers, 1)
        asked == <<In("Pick one: ", raw)>>
    IN  IF Raised(call) # "none"
        THEN [eff |-> Eff(<<call>>, <<>>, <<>>, <<>>, Raised(call)),
              serials |-> <<>>, ret |-> None]
        ELSE IF sers = <<>>
        THEN [eff |-> Eff(<<call>>, <<>>, <<>>, <<>>, "none"),
              serials |-> sers, ret |-> None]
        ELSE IF ~AllDecimal(choice)
        THEN [eff |-> Eff(<<call>>, listing, <<>>, asked, "none"),
              serials |-> sers, ret |-> None]
        ELSE [eff |-> Eff(<<call>>, listing, <<>>, asked, "none"),
              serials |-> sers, ret |-> PickIndex(sers, DigitsVal(choice))]

\* pick_adb_serial(): [eff, serials, ret]
pick_adb_serial(v, outcome, stdout, raw) ==
    LET call == run_capture(<<"adb", "devices", "-l">>, TRUE, 10, outcome, stdout)
        sers == parse_adb_devices(v, call.stdout)
        choice == PyStrip(raw)
        listing == <<"Multiple ADB devices detected:">> \o PickListing(sers, 1)
        asked == <<In("Pick one: ", raw)>>
    IN  IF Raised(call) # "none"
        THEN [eff |-> Eff(<<call>>, <<>>, <<>>, <<>>, Raised(call)),
              serials |-> <<>>, ret |-> None]
        ELSE IF sers = <<>>
        THEN [eff |-> Eff(<<call>>, <<>>, <<>>, <<>>, "none"),
              serials |-> sers, ret |-> None]
        ELSE IF Len(sers) = 1
        THEN [eff |-> Eff(<<call>>, <<>>, <<>>, <<>>, "none"),
              serials |-> sers, ret |-> Some(sers[1])]
        ELSE IF ~PyIsDigit(choice)
        THEN [eff |-> Eff(<<call>>, listing, <<>>, asked, "none"),
              serials |-> sers, ret |-> None]
        ELSE IF ~PyInt(choice).ok
        THEN [eff |-> Eff(<<call>>, listing, <<>>, asked, "ValueError"),
              serials |-> sers, ret |-> None]
        ELSE [eff |-> Eff(<<call>>, listing, <<>>, asked, "none"),
              serials |-> sers, ret |-> PickIndex(sers, PyInt(choice).val)]

-----------------------------------------------------------------------------
(* Action handlers of all variants.                                        *)

\* "\n".join(lines), each line a sequence of characters
RECURSIVE JoinNlChars(_)
JoinNlChars(lines) ==
    IF lines = <<>> THEN <<>>
    ELSE IF Len(lines) = 1 THEN lines[1]
    ELSE lines[1] \o <<"\n">> \o JoinNlChars(Tail(lines))

\* a file's content is the sequence of the characters written to it
Mkdir(dir) == [op |-> "mkdir", path |-> dir, content |-> <<>>]
WriteFile(path, content) == [op |-> "write", path |-> path, content |-> content]

CmdSpec(cmd, timeout) == [cmd |-> cmd, timeout |-> timeout]

\* action_status: both device lists, strict, 10 s each
action_status(outs, stdout) ==
    LET specs == <<CmdSpec(<<"adb", "devices", "-l">>, 10),
                   CmdSpec(<<"fastboot", "devices">>, 10)>>
        cs == RunStrict(specs, outs, stdout)
        done == IF LastRaised(cs) = "none" THEN Len(cs) ELSE Len(cs) - 1
    IN  Eff(cs,
            <<"", "ADB devices:">>
              \o (IF done >= 1 THEN <<Str(cs[1].stdout), "Fastboot devices:">> ELSE <<>>)
              \o (IF done >= 2 THEN <<Str(cs[2].stdout)>> ELSE <<>>),
            <<>>, <<>>, LastRaised(cs))

\* a report that writes each value under the key it was queried by
ReportPropsKeyed(v) ==
    <<[label |-> <<"r", "o", ".", "p", "r", "o", "d", "u", "c", "t", ".", "m", "o", "d", "e", "l">>,
       key |-> "ro.product.model"]>>

\* the properties action_report queries, with the label each is written under
ReportProps(v) ==
    IF v = "ai"
    THEN <<[label |-> <<"m", "o", "d", "e", "l">>, key |-> "ro.product.model"],
           [label |-> <<"a", "n", "d", "r", "o", "i", "d">>, key |-> "ro.build.version.release"],
           [label |-> <<"s", "e", "c", "u", "r", "i", "t", "y", "_", "p", "a", "t", "c", "h">>, key |-> "ro.build.version.security_patch"],
           [label |-> <<"f", "i", "n", "g", "e", "r", "p", "r", "i", "n", "t">>, key |-> "ro.build.fingerprint"],
           [label |-> <<"a", "b", "i">>, key |-> "ro.product.cpu.abi"]>>
    ELSE <<[label |-> <<"m", "o", "d", "e", "l">>, key |-> "ro.product.model"],
           [label |-> <<"a", "n", "d", "r", "o", "i", "d">>, key |-> "ro.build.version.release"],
           [label |-> <<"f", "i", "n", "g", "e", "r", "p", "r", "i", "n", "t">>, key |-> "ro.build.fingerprint"],
           [label |-> <<"v", "e", "r", "i", "f", "i", "e", "d", "b", "o", "o", "t", "s", "t", "a", "t", "e">>, key |-> "ro.boot.verifiedbootstate"],
           [label |-> <<"f", "l", "a", "s", "h", ".", "l", "o", "c", "k", "e", "d">>, key |-> "ro.boot.flash.locked"],
           [label |-> <<"v", "b", "m", "e", "t", "a", ".", "d", "e", "v", "i", "c", "e", "_", "s", "t", "a", "t", "e">>, key |-> "ro.boot.vbmeta.device_state"]>>

ReportRejection(v) ==
    IF v = "v01"
    THEN "No ADB serial selected (device must not be authorized and in Android)."
    ELSE "No ADB serial selected (device must be authorized and in Android)."

\* datetime.now().isoformat()
NowIso == "2026-01-01T00:00:00"

ReportPath(c) == REPORT_DIR \o "/report-" \o SerialStr(c) \o "-" \o TS \o ".txt"

\* action_report
action_report(v, c, outs, stdout) ==
    IF ~Truthy(c.serial)
    THEN Eff(<<>>, <<ReportRejection(v)>>, <<>>, <<>>, "none")
    ELSE
    LET props == ReportProps(v)
        specs == [i \in 1..Len(props) |->
                     CmdSpec(adb_base(c) \o <<"shell", "getprop", props[i].key>>, 15)]
                 \o <<CmdSpec(adb_base(c) \o <<"shell", "id">>, 10)>>
        cs == RunStrict(specs, outs, stdout)
        ok == Len(cs) = Len(specs) /\ LastRaised(cs) = "none"
        val == PyStrip(stdout)
        \* the serial and the time stamp are each written as one element
        lines == <<<<"s", "e", "r", "i", "a", "l", ":", " ">> \o <<SerialStr(c)>>,
                   (IF v = "v01" THEN <<"w", "h", "e", "n", ":", " ", " ", " ">>
                    ELSE <<"w", "h", "e", "n", ":", " ">>) \o <<NowIso>>,
                   <<>>>>
                 \o [i \in 1..Len(props) |-> props[i].label \o <<":", " ">> \o val]
                 \o <<<<>>, <<"i", "d", ":">>, val>>
    IN  IF ok
        THEN Eff(cs, <<"Wrote: " \o ReportPath(c)>>,
                 <<Mkdir(REPORT_DIR), WriteFile(ReportPath(c), JoinNlChars(lines) \o <<"\n">>)>>,
                 <<>>, "none")
        ELSE Eff(cs, <<>>, <<Mkdir(REPORT_DIR)>>, <<>>, LastRaised(cs))

DryRunLine(cmd) == "Dry-run. Would run: " \o JoinSp(cmd)

\* main-menu choice 3, written inline in menu()
action_reboot_bootloader(v, c, outcome, stdout) ==
    LET cmd == adb_base(c) \o <<"reboot", "bootloader">>
        call == run_capture(cmd, TRUE, 30, outcome, stdout)
        pause == IF v = "ai" THEN <<Pause("Press Enter...")>> ELSE <<>>
    IN  IF ~Truthy(c.serial)
        THEN Eff(<<>>, <<"No ADB serial selected.">>, <<>>, <<>>, "none")
        ELSE IF v # "v01" /\ c.dry_run
        THEN Eff(<<>>, <<DryRunLine(cmd)>>, <<>>, pause, "none")
        ELSE IF Raised(call) # "none"
        THEN Eff(<<call>>, <<"Running: " \o JoinSp(cmd)>>, <<>>, <<>>, Raised(call))
        ELSE Eff(<<call>>, <<"Running: " \o JoinSp(cmd)>>, <<>>, pause, "none")

-----------------------------------------------------------------------------
(* Log retrieval.                                                          *)

\* needle in hay
Contains(hay, needle) ==
    \E i \in 0..(Len(hay) - Len(needle)) : SubSeq(hay, i + 1, i + Len(needle)) = needle

\* a marker test that keeps the case of the line
IsAvcLineSameCase(ln) == Contains(ln, <<"a", "v", "c", ":">>)

\* "avc:" in ln.lower()
IsAvcLine(ln) == Contains(PyLower(ln), <<"a", "v", "c", ":">>)

\* "\n".join([ln for ln in out.splitlines() if "avc:" in ln.lower()])
AvcFilter(out) == JoinNlChars(SelectSeq(PySplitlines(out), IsAvcLine))

\* re.compile on the fragment of patterns made of literals, "." and groups:
\* it raises re.error exactly when the parentheses do not balance.
RECURSIVE ParensBalanceFrom(_, _, _)
ParensBalanceFrom(p, i, depth) ==
    IF i > Len(p) THEN depth = 0
    ELSE IF p[i] = "(" THEN ParensBalanceFrom(p, i + 1, depth + 1)
    ELSE IF p[i] = ")" THEN depth > 0 /\ ParensBalanceFrom(p, i + 1, depth - 1)
    ELSE ParensBalanceFrom(p, i + 1, depth)

ReCompiles(p) == ParensBalanceFrom(p, 1, 0)

\* rx.search(ln) on that fragment: groups are transparent, "." is any character
ReSearch(p, ln) ==
    LET flat == SelectSeq(p, LAMBDA ch : ch \notin {"(", ")"})
    IN  \E i \in 0..(Len(ln) - Len(flat)) :
            \A j \in 1..Len(flat) : flat[j] = "." \/ flat[j] = ln[i + j]

\* a confirmation compared without regard to case
ConfirmAnyCase(confirm) == PyLower(confirm) = <<"y", "e", "s">>

\* confirm != "YES" leaves the handler
ConfirmOK(confirm) == confirm = <<"Y", "E", "S">>

\* the sub-mode a stripped, lower-cased answer selects: "1".."8", "b" or "other"
LogMode(v, choice) ==
    IF choice = "b" THEN "b"
    ELSE IF v = "ai"
    THEN (CASE choice = "l1" -> "1" [] choice = "l2" -> "2" [] choice = "l3" -> "3"
            [] choice = "l4" -> "4" [] choice = "l5" -> "5" [] choice = "l6" -> "6"
            [] choice = "l7" -> "7" [] choice = "l8" -> "8" [] OTHER -> "other")
    ELSE IF choice \in {"1", "2", "3", "4", "5", "6", "7", "8"} THEN choice
    ELSE "other"

LogcatCmd(c, n, tag) ==
    adb_base(c) \o
    (CASE n = "1" -> <<"logcat", "-b", "all", "-d", "-t", "200", "-v", "time">>
       [] n = "2" -> <<"logcat", "-b", "all", "-v", "time">>
       [] n = "3" -> <<"logcat", "-v", "time", "AndroidRuntime:E", "*:S">>
       [] n = "5" -> <<"logcat", "-b", "all", "-d", "-v", "time", tag \o ":V", "*:S">>
       [] n = "8" -> <<"logcat", "-b", "all", "-c">>
       [] OTHER -> <<"logcat", "-b", "all", "-d", "-v", "time">>)

LogcatTimeout(v, n) == IF v # "v01" /\ n = "8" THEN 30 ELSE 60

\* the live follow is streamed by v1.2 and ai, and captured by the first variant
LogcatStreams(v, n) == v # "v01" /\ n = "2"

LogPath(c) == LOG_DIR \o "/logcat-" \o SerialStr(c) \o "-" \o TS \o ".txt"

LogcatMenuText == "LOGCAT LAB"

\* v1.2 and ai run the command while building it, and look at the dry-run
\* flag only afterwards; the first variant looks at the flag first.
RunsBeforeDryRunCheck(v) == v # "v01"

\* action_logcat_lab
action_logcat_lab(v, c, rawChoice, raw, outcome, stdout) ==
    LET n == LogMode(v, Str(PyLower(PyStrip(rawChoice))))
        answer == PyStrip(raw)
        cmd == LogcatCmd(c, n, Str(answer))
        chosen == <<In("logcat", rawChoice)>>
        asked == chosen \o (CASE n = "5" -> <<In("tag", raw)>>
                              [] n = "6" -> <<In("regex", raw)>>
                              [] n = "8" -> <<In("confirm", raw)>>
                              [] OTHER -> <<>>)
        back == \/ n \in {"b", "other"}
                \/ n \in {"5", "6"} /\ answer = <<>>
                \/ n = "8" /\ ~ConfirmOK(answer)
        mk == IF n = "7" THEN <<Mkdir(LOG_DIR)>> ELSE <<>>
        menu == <<"", LogcatMenuText>>
        pause == <<Pause("Press Enter...")>>
        call == run_capture(cmd, TRUE, LogcatTimeout(v, n), outcome, stdout)
        out == CASE n = "4" -> AvcFilter(call.stdout)
                 [] n = "6" -> JoinNlChars(SelectSeq(PySplitlines(call.stdout),
                                                 LAMBDA ln : ReSearch(answer, ln)))
                 [] OTHER -> call.stdout
        dry == Eff(<<>>, menu \o <<DryRunLine(cmd)>>, mk, asked \o pause, "none")
        \* everything after the command has run
        after ==
            IF Raised(call) # "none"
            THEN Eff(<<call>>, menu, mk, asked, Raised(call))
            ELSE IF n = "6" /\ ~ReCompiles(answer)
            THEN Eff(<<call>>, menu \o <<"Bad regex: re.error">>, mk, asked \o pause, "none")
            ELSE IF RunsBeforeDryRunCheck(v) /\ c.dry_run
            THEN Eff(<<call>>, menu \o <<DryRunLine(cmd)>>, mk, asked \o pause, "none")
            ELSE IF n = "7"
            THEN Eff(<<call>>, menu \o <<"Wrote: " \o LogPath(c)>>,
                     mk \o <<WriteFile(LogPath(c), out)>>, asked \o pause, "none")
            ELSE Eff(<<call>>, menu \o <<Str(out)>>, mk, asked \o pause, "none")
        stream == run_stream(cmd, outcome)
    IN  IF ~Truthy(c.serial)
        THEN Eff(<<>>, <<"No ADB serial selected.">>, <<>>, pause, "none")
        ELSE IF back THEN Eff(<<>>, menu, <<>>, asked, "none")
        ELSE IF LogcatStreams(v, n)
        THEN (IF c.dry_run THEN dry
              ELSE Eff(<<stream>>, menu \o <<"Streaming logcat. Ctrl+C to stop.">>,
                       <<>>, chosen, Raised(stream)))
        ELSE IF ~RunsBeforeDryRunCheck(v) /\ c.dry_run THEN dry
        ELSE after

-----------------------------------------------------------------------------
(* The handlers only android_workbench_ai.py has.                          *)

\* a guard that lets every context through
require_serial_unchecked(c) == TRUE

require_serial(c) == Truthy(c.serial)

\* what require_serial does before it returns False
NoSerial == Eff(<<>>, <<"No ADB serial selected.">>, <<>>, <<Pause("Press Enter...")>>, "none")

EnterPause == <<Pause("Press Enter...")>>

\* out.strip() or "(no output)"
OrNoOutput(chars) == IF PyStrip(chars) = <<>> THEN "(no output)" ELSE Str(PyStrip(chars))

\* lines[:n]
FirstN(lines, n) == SubSeq(lines, 1, IF Len(lines) < n THEN Len(lines) ELSE n)

BatteryLines == 40

\* action_device_summary: seven strict queries, then the box
action_device_summary(c, outs, stdout) ==
    LET getprop(key) == CmdSpec(adb_base(c) \o <<"shell", "getprop", key>>, 15)
        sh(args) == CmdSpec(adb_base(c) \o <<"shell">> \o args, 20)
        specs == <<getprop("ro.product.model"),
                   getprop("ro.build.version.release"),
                   getprop("ro.build.version.security_patch"),
                   getprop("ro.build.fingerprint"),
                   getprop("ro.product.cpu.abi"),
                   sh(<<"dumpsys", "battery">>),
                   sh(<<"uptime">>)>>
        cs == RunStrict(specs, outs, stdout)
        ok == Len(cs) = Len(specs) /\ LastRaised(cs) = "none"
        val == Str(PyStrip(stdout))
        batt == PySplitlines(PyStrip(stdout))
        lines == <<"model: " \o val, "android: " \o val, "security_patch: " \o val,
                   "abi: " \o val, "fingerprint: " \o val, "", "uptime:", val, "",
                   "battery:">>
                 \o [i \in 1..Len(FirstN(batt, BatteryLines)) |-> Str(batt[i])]
    IN  IF ~require_serial(c) THEN NoSerial
        ELSE IF ok THEN Eff(cs, <<"DEVICE SUMMARY">> \o lines, <<>>, EnterPause, "none")
        ELSE Eff(cs, <<>>, <<>>, <<>>, LastRaised(cs))

mResumedActivity == <<"m", "R", "e", "s", "u", "m", "e", "d", "A", "c", "t", "i", "v", "i", "t", "y">>
topResumedActivity == <<"t", "o", "p", "R", "e", "s", "u", "m", "e", "d", "A", "c", "t", "i", "v", "i", "t", "y">>
mCurrentFocus == <<"m", "C", "u", "r", "r", "e", "n", "t", "F", "o", "c", "u", "s">>
mFocusedApp == <<"m", "F", "o", "c", "u", "s", "e", "d", "A", "p", "p">>

\* [ln.strip() for ln in out.splitlines() if a in ln or b in ln]
Hits(out, a, b) ==
    LET kept == SelectSeq(PySplitlines(out), LAMBDA ln : Contains(ln, a) \/ Contains(ln, b))
    IN  [i \in 1..Len(kept) |-> Str(PyStrip(kept[i]))]

NoForegroundLine == "(No foreground activity line found - dumpsys output format may differ.)"

\* action_foreground_app
action_foreground_app(c, outs, stdout) ==
    LET c1 == run_capture(adb_base(c) \o <<"shell", "dumpsys", "activity", "activities">>,
                          TRUE, 30, outs[1], stdout)
        hits1 == Hits(c1.stdout, mResumedActivity, topResumedActivity)
        c2 == run_capture(adb_base(c) \o <<"shell", "dumpsys", "window">>,
                          TRUE, 30, outs[2], stdout)
        hits2 == Hits(c2.stdout, mCurrentFocus, mFocusedApp)
        show(hits) == <<"FOREGROUND">> \o (IF hits = <<>> THEN <<NoForegroundLine>> ELSE hits)
    IN  IF ~require_serial(c) THEN NoSerial
        ELSE IF Raised(c1) # "none" THEN Eff(<<c1>>, <<>>, <<>>, <<>>, Raised(c1))
        ELSE IF hits1 # <<>> THEN Eff(<<c1>>, show(hits1), <<>>, EnterPause, "none")
        ELSE IF Raised(c2) # "none" THEN Eff(<<c1, c2>>, <<>>, <<>>, <<>>, Raised(c2))
        ELSE Eff(<<c1, c2>>, show(hits2), <<>>, EnterPause, "none")

HOME == <<"/", "h">>

\* Path(apk).expanduser(): a leading "~" component becomes the home directory
ExpandUser(path) ==
    IF path # <<>> /\ Head(path) = "~" /\ (Len(path) = 1 \/ path[2] = "/")
    THEN HOME \o Tail(path)
    ELSE path

\* what the host has at the path the operator gave: nothing, a file the
\* user may not read, or a file the user may read
HostFileStates == {"missing", "unreadable", "readable"}

\* apk_path.exists(): a stat of the path, which needs no read permission
PathExists(host) == host # "missing"

\* the look the handler takes at the host path, with the state it finds
Stat(path, host) == [op |-> "exists", path |-> path, content |-> host]

\* action_install_apk; host is the state of the expanded path on the host
action_install_apk(c, raw, host, outcome, stdout) ==
    LET apk == PyStrip(raw)
        apk_path == Str(ExpandUser(apk))
        cmd == adb_base(c) \o <<"install", "-r", apk_path>>
        asked == <<In("apk", raw)>>
        cp == run_capture(cmd, FALSE, 300, outcome, stdout)
        looked == <<Stat(apk_path, host)>>
    IN  IF ~require_serial(c) THEN NoSerial
        ELSE IF apk = <<>> THEN Eff(<<>>, <<>>, <<>>, asked, "none")
        ELSE IF ~PathExists(host)
        THEN Eff(<<>>, <<"Not found: " \o apk_path>>, looked, asked \o EnterPause, "none")
        ELSE IF c.dry_run
        THEN Eff(<<>>, <<DryRunLine(cmd)>>, looked, asked \o EnterPause, "none")
        ELSE IF Raised(cp) # "none" THEN Eff(<<cp>>, <<>>, looked, asked, Raised(cp))
        ELSE Eff(<<cp>>,
                 <<Str(PyStrip(cp.stdout))>>
                   \o (IF PyStrip(cp.stderr) # <<>> THEN <<Str(PyStrip(cp.stderr))>> ELSE <<>>),
                 looked, asked \o EnterPause, "none")

\* a handler that tests the answer for emptiness before stripping it
PromptThenRunUnstripped(c, prompt, raw, cmd, timeout, outcome, stdout) ==
    LET asked == <<In(prompt, raw)>>
        cp == run_capture(cmd, FALSE, timeout, outcome, stdout)
    IN  IF ~require_serial(c) THEN NoSerial
        ELSE IF raw = <<>> THEN Eff(<<>>, <<>>, <<>>, asked, "none")
        ELSE IF c.dry_run
        THEN Eff(<<>>, <<DryRunLine(cmd)>>, <<>>, asked \o EnterPause, "none")
        ELSE IF Raised(cp) # "none" THEN Eff(<<cp>>, <<>>, <<>>, asked, Raised(cp))
        ELSE Eff(<<cp>>, <<OrNoOutput(cp.stdout)>>, <<>>, asked \o EnterPause, "none")

\* the shape action_clear_app_data and action_open_url share: one free-text
\* answer, one non-strict command
PromptThenRun(c, prompt, raw, cmd, timeout, outcome, stdout) ==
    LET asked == <<In(prompt, raw)>>
        cp == run_capture(cmd, FALSE, timeout, outcome, stdout)
    IN  IF ~require_serial(c) THEN NoSerial
        ELSE IF PyStrip(raw) = <<>> THEN Eff(<<>>, <<>>, <<>>, asked, "none")
        ELSE IF c.dry_run
        THEN Eff(<<>>, <<DryRunLine(cmd)>>, <<>>, asked \o EnterPause, "none")
        ELSE IF Raised(cp) # "none" THEN Eff(<<cp>>, <<>>, <<>>, asked, Raised(cp))
        ELSE Eff(<<cp>>, <<OrNoOutput(cp.stdout)>>, <<>>, asked \o EnterPause, "none")

action_clear_app_data(c, raw, outcome, stdout) ==
    PromptThenRun(c, "pkg", raw,
                  adb_base(c) \o <<"shell", "pm", "clear", Str(PyStrip(raw))>>,
                  60, outcome, stdout)

action_open_url(c, raw, outcome, stdout) ==
    PromptThenRun(c, "url", raw,
                  adb_base(c) \o <<"shell", "am", "start", "-a",
                                   "android.intent.action.VIEW", "-d", Str(PyStrip(raw))>>,
                  30, outcome, stdout)

ScreenshotPath(c) == MEDIA_DIR \o "/screenshot-" \o SerialStr(c) \o "-" \o TS \o ".png"

\* action_screenshot: subprocess.run(cmd, capture_output=True, check=False)
action_screenshot(c, outcome, stdout) ==
    LET cmd == adb_base(c) \o <<"exec-out", "screencap", "-p">>
        p == [cmd |-> cmd, mode |-> "raw", check |-> FALSE, timeout |-> 0,
              outcome |-> outcome, stdout |-> stdout,
              stderr |-> IF outcome = "nonzero" THEN StderrText ELSE <<>>]
        mk == <<Mkdir(MEDIA_DIR)>>
    IN  IF ~require_serial(c) THEN NoSerial
        ELSE IF c.dry_run
        THEN Eff(<<>>, <<DryRunLine(cmd) \o " > " \o ScreenshotPath(c)>>, mk, EnterPause, "none")
        ELSE IF p.outcome # "ok"
        THEN Eff(<<p>>, <<"screencap failed">>
                          \o (IF p.stderr # <<>> THEN <<Str(p.stderr)>> ELSE <<>>),
                 mk, EnterPause, "none")
        ELSE Eff(<<p>>, <<"Wrote: " \o ScreenshotPath(c)>>,
                 mk \o <<WriteFile(ScreenshotPath(c), p.stdout)>>, EnterPause, "none")

-----------------------------------------------------------------------------
(* Screen recording.                                                       *)

DefaultDuration == 15
MinDuration == 1
MaxDuration == 180

Min(a, b) == IF a < b THEN a ELSE b
Max(a, b) == IF a > b THEN a ELSE b

\* duration = 15; if dur_s: try: duration = int(dur_s) except ValueError: duration = 15
ParseDuration(dur_s) ==
    IF dur_s = <<>> THEN DefaultDuration
    ELSE IF PyInt(dur_s).ok THEN PyInt(dur_s).val
    ELSE DefaultDuration

\* a clamp with the upper limit only
ClampAboveOnly(duration) == Min(duration, MaxDuration)

\* a pull whose exit status is not looked at
PullIgnored(cp) == TRUE

\* duration = max(1, min(duration, 180))
ClampDuration(duration) == Max(MinDuration, Min(duration, MaxDuration))

\* if cp.returncode == 0
PullSucceeded(cp) == cp.outcome = "ok"

DevicePath == "/sdcard/workbench-record-" \o TS \o ".mp4"
HostPath(c) == MEDIA_DIR \o "/screenrecord-" \o SerialStr(c) \o "-" \o TS \o ".mp4"

\* action_screenrecord
action_screenrecord(c, raw, outs, stdout) ==
    LET duration == ClampDuration(ParseDuration(PyStrip(raw)))
        cmd == adb_base(c) \o <<"shell", "screenrecord", "--time-limit",
                                PyStr(duration), DevicePath>>
        pull_cmd == adb_base(c) \o <<"pull", DevicePath, HostPath(c)>>
        rm_cmd == adb_base(c) \o <<"shell", "rm", "-f", DevicePath>>
        rec == run_capture(cmd, FALSE, duration + 30, outs[1], stdout)
        cp == run_capture(pull_cmd, FALSE, 300, outs[2], stdout)
        rm == run_capture(rm_cmd, FALSE, 30, outs[3], stdout)
        mk == <<Mkdir(MEDIA_DIR)>>
        asked == <<In("duration", raw)>>
        recording == <<"Recording for " \o PyStr(duration) \o "s...">>
    IN  IF ~require_serial(c) THEN NoSerial
        ELSE IF c.dry_run
        THEN Eff(<<>>,
                 <<DryRunLine(cmd), "Then: adb pull " \o DevicePath \o " " \o HostPath(c)>>,
                 mk, asked \o EnterPause, "none")
        ELSE IF Raised(rec) # "none" THEN Eff(<<rec>>, recording, mk, asked, Raised(rec))
        ELSE IF Raised(cp) # "none" THEN Eff(<<rec, cp>>, recording, mk, asked, Raised(cp))
        ELSE IF ~PullSucceeded(cp)
        THEN Eff(<<rec, cp>>,
                 recording \o <<"pull failed", Str(PyStrip(cp.stdout)), Str(PyStrip(cp.stderr))>>,
                 mk, asked \o EnterPause, "none")
        ELSE IF Raised(rm) # "none"
        THEN Eff(<<rec, cp, rm>>, recording \o <<"Wrote: " \o HostPath(c)>>, mk, asked, Raised(rm))
        ELSE Eff(<<rec, cp, rm>>, recording \o <<"Wrote: " \o HostPath(c)>>,
                 mk, asked \o EnterPause, "none")

-----------------------------------------------------------------------------
(* Fastboot.                                                               *)

\* the shape both fastboot handlers end in: dry-run print, or one non-strict
\* command whose stdout and stderr are printed together
FastbootRun(c, cmd, printedBefore, asked, outcome, stdout) ==
    LET cp == run_capture(cmd, FALSE, 60, outcome, stdout)
    IN  IF c.dry_run
        THEN Eff(<<>>, printedBefore \o <<DryRunLine(cmd)>>, <<>>, asked \o EnterPause, "none")
        ELSE IF Raised(cp) # "none" THEN Eff(<<cp>>, printedBefore, <<>>, asked, Raised(cp))
        ELSE Eff(<<cp>>, printedBefore \o <<OrNoOutput(cp.stdout \o cp.stderr)>>,
                 <<>>, asked \o EnterPause, "none")

action_fastboot_getvar_all(c, outcome, stdout) ==
    FastbootRun(c, fastboot_base(c) \o <<"getvar", "all">>, <<>>, <<>>, outcome, stdout)

action_fastboot_reboot_menu(c, rawChoice, outcome, stdout) ==
    LET choice == Str(PyLower(PyStrip(rawChoice)))
        asked == <<In("fastboot", rawChoice)>>
        menu == <<"", "FASTBOOT REBOOT">>
        tail == CASE choice = "f1" -> <<"reboot">>
                  [] choice = "f2" -> <<"reboot", "bootloader">>
                  [] choice = "f3" -> <<"reboot", "recovery">>
                  [] OTHER -> <<>>
    IN  IF tail = <<>> THEN Eff(<<>>, menu, <<>>, asked, "none")
        ELSE FastbootRun(c, fastboot_base(c) \o tail, menu, asked, outcome, stdout)

-----------------------------------------------------------------------------
(* What the operator and the children can supply.                          *)

MaxPickLen == 2
MaxDurLen == 3
MaxLines == 4

SeqsUpTo(S, n) == UNION {[1..k -> S] : k \in 0..n}

cList == <<"L", "i", "s", "t">>
cDevice == <<"d", "e", "v", "i", "c", "e">>
cOffline == <<"o", "f", "f", "l", "i", "n", "e">>

\* outputs of `adb devices -l`: no device, one, two among three lines, three
DeviceTexts ==
    { <<>>,
      cList \o <<"\n">>,
      cList \o <<"\n", "A", "1", "\t">> \o cDevice \o <<"\n">>,
      cList \o <<"\n", "A", "1", " ">> \o cDevice \o <<"\n", "B", "2", " ">> \o cOffline
            \o <<"\n", "\n", " ", "C", "3", " ", " ">> \o cDevice \o <<" ", "u", "\n">>,
      cList \o <<"\n", "A", "1", " ">> \o cDevice \o <<"\n", "B", "2", " ">> \o cDevice
            \o <<"\n", "C", "3", " ">> \o cDevice }

ArgSerials == {None, Some(""), Some("S9")}

PickAlphabet == {"0", "1", "2", "3", "4", "<sup2>", "x", "-", " "}
PickInputs == SeqsUpTo(PickAlphabet, MaxPickLen)

MenuInputs ==
    { <<"1">>, <<"2">>, <<"3">>, <<"4">>, <<"5">>, <<"6">>, <<"7">>, <<"8">>, <<"9">>,
      <<"u">>, <<"s">>, <<"f", "a">>, <<"f", "r">>, <<"d">>, <<"q">>,
      <<" ", "Q", " ">>, <<"D">>, <<"F", "A">>, <<>>, <<"x">> }

LogMenuInputs ==
    { <<"1">>, <<"2">>, <<"3">>, <<"4">>, <<"5">>, <<"6">>, <<"7">>, <<"8">>,
      <<"l", "1">>, <<"l", "2">>, <<"l", "3">>, <<"l", "4">>, <<"l", "5">>, <<"l", "6">>,
      <<"l", "7">>, <<"l", "8">>, <<"L", "8", " ">>, <<"b">>, <<>>, <<"x">> }

FastbootMenuInputs == { <<"f", "1">>, <<"f", "2">>, <<" ", "F", "3">>, <<"b">>, <<>>, <<"x">> }

\* answers to the tag, regex and confirmation prompts of the log menu
LogAnswers ==
    { <<>>, <<" ">>, <<"a">>, <<" ", "a", "v", "c", " ">>, <<"(">>, <<"a", ")">>,
      <<"(", ".", ")">>, <<"Y", "E", "S">>, <<" ", "Y", "E", "S", "\t">>,
      <<"y", "e", "s">>, <<"y">>, <<"Y", "E", "S", "S">>, <<"Y", "e", "s">> }

\* answers to the package, URL and APK prompts
TextAnswers == { <<>>, <<" ", "\t">>, <<"a">>, <<" ", "~", "/", "a", " ">> }

DurAlphabet == {"-", "0", "1", "9", "x", " "}
DurInputs == SeqsUpTo(DurAlphabet, MaxDurLen)

\* captured standard output of a child
LogTexts ==
    { <<>>,
      <<"h", "i", "\n", "x", " ", "a", "v", "c", ":", " ", "d", "\n", "A", "V", "C", ":", "\n">>,
      <<"a", "\n", "\n", "b", "c">> }

DumpsysTexts ==
    { <<>>,
      <<" ">> \o mCurrentFocus \o <<"=", "a", "\n", "z">>,
      <<"z", "\n", " ">> \o mResumedActivity \o <<":", " ", "b", " ">> }

ValueTexts == { <<>>, <<"v", "1", "\n">> }

\* outcomes of n strict calls made in a row: all ok, or the k-th fails
StrictOutcomes(n) ==
    {FailingAt(n, 0, "ok")}
      \cup {FailingAt(n, k, kind) : k \in 1..n, kind \in {"nonzero", "timeout"}}

\* outcomes of the three non-strict calls of a screen recording; a call that
\* is never made has no outcome (written "ok")
ScreenrecordOutcomes ==
    {o \in [1..3 -> CaptureOutcomes] :
        /\ o[1] = "timeout" => o[2] = "ok"
        /\ o[2] # "ok" => o[3] = "ok"}

-----------------------------------------------------------------------------
(* The process: startup, then the main loop.                               *)

Init ==
    /\ variant \in Variants
    /\ text \in DeviceTexts
    /\ argSerial \in ArgSerials
    /\ serials = <<>>
    /\ pc = "boot"
    /\ ctx = Ctx(None)
    /\ action = "none"
    /\ inputs = <<>>
    /\ calls = <<>>
    /\ printed = <<>>
    /\ fs = <<>>
    /\ exc = "none"

\* a startup that runs the selector whatever the argument
StartupAlwaysSelects ==
    /\ pc = "boot"
    /\ action' = "startup"
    /\ fs' = <<>>
    /\ \E outcome \in CaptureOutcomes, raw \in PickInputs :
          LET r == pick_adb_serial(variant, outcome, text, raw)
          IN  /\ calls' = r.eff.calls
              /\ printed' = r.eff.printed
              /\ inputs' = r.eff.inputs
              /\ exc' = r.eff.exc
              /\ serials' = r.serials
              /\ ctx' = Ctx(IF Truthy(argSerial) THEN argSerial ELSE r.ret)
              /\ pc' = IF r.eff.exc = "none" THEN "after" ELSE "crash"
    /\ UNCHANGED <<variant, text, argSerial>>

\* menu(), line "ctx = Ctx(serial=serial or pick_adb_serial())": outside any try
Startup ==
    /\ pc = "boot"
    /\ action' = "startup"
    /\ fs' = <<>>
    /\ IF Truthy(argSerial)
       THEN /\ ctx' = Ctx(argSerial)
            /\ pc' = "after"
            /\ calls' = <<>> /\ printed' = <<>> /\ inputs' = <<>> /\ exc' = "none"
            /\ serials' = <<>>
       ELSE \E outcome \in CaptureOutcomes, raw \in PickInputs :
              LET r == pick_adb_serial(variant, outcome, text, raw)
              IN  /\ calls' = r.eff.calls
                  /\ printed' = r.eff.printed
                  /\ inputs' = r.eff.inputs
                  /\ exc' = r.eff.exc
                  /\ serials' = r.serials
                  /\ ctx' = Ctx(r.ret)
                  /\ pc' = IF r.eff.exc = "none" THEN "after" ELSE "crash"
    /\ UNCHANGED <<variant, text, argSerial>>

\* top of the while loop: clear the screen, print banner, status line and menu
LoopBack ==
    /\ pc = "after"
    /\ pc' = "menu"
    /\ action' = "none"
    /\ inputs' = <<>> /\ calls' = <<>> /\ printed' = <<>> /\ fs' = <<>> /\ exc' = "none"
    /\ text' = <<>> /\ serials' = <<>>
    /\ UNCHANGED <<variant, argSerial, ctx>>

\* choice = input("> ").strip().lower()
Choice(raw) == Str(PyLower(PyStrip(raw)))

KnownChoices(v) ==
    IF v = "ai"
    THEN {"1", "2", "3", "4", "5", "6", "7", "8", "9", "u", "s", "fa", "fr", "d", "q"}
    ELSE {"1", "2", "3", "4", "d", "q"}

\* except clauses that lack the one for a timeout
CaughtFailuresOnly(v, e) == v # "v01" /\ e = "CalledProcessError"

\* the except clauses of menu(); the first variant has none
Caught(v, e) == v # "v01" /\ e \in {"CalledProcessError", "TimeoutExpired"}

\* a report that leaves out the captured streams
ErrorReportWithoutStreams(call) ==
    IF Raised(call) = "TimeoutExpired" THEN <<"Command timed out.">>
    ELSE <<"Command failed:", JoinSp(call.cmd)>>

\* what the except clauses print for the call that raised
ErrorReport(call) ==
    IF Raised(call) = "TimeoutExpired" THEN <<"Command timed out.">>
    ELSE <<"Command failed:", JoinSp(call.cmd)>>
         \o (IF call.stdout # <<>> THEN <<"\nstdout:\n" \o Str(call.stdout)>> ELSE <<>>)
         \o (IF call.stderr # <<>> THEN <<"\nstderr:\n" \o Str(call.stderr)>> ELSE <<>>)

ContinuePause == <<Pause("Press Enter to continue...")>>

\* One loop iteration that dispatched a handler: its effects, the except
\* clauses, and the closing pause unless the branch `continue`s (cont).
Dispatch(name, raw, eff, cont) ==
    /\ action' = name
    /\ calls' = eff.calls
    /\ fs' = eff.fs
    /\ exc' = eff.exc
    /\ IF eff.exc = "none"
       THEN /\ printed' = eff.printed
            /\ inputs' = <<In("menu", raw)>> \o eff.inputs
                         \o (IF cont THEN <<>> ELSE ContinuePause)
            /\ pc' = "after"
       ELSE IF Caught(variant, eff.exc)
       THEN /\ printed' = eff.printed \o ErrorReport(eff.calls[Len(eff.calls)])
            /\ inputs' = <<In("menu", raw)>> \o eff.inputs \o ContinuePause
            /\ pc' = "after"
       ELSE /\ printed' = eff.printed
            /\ inputs' = <<In("menu", raw)>> \o eff.inputs
            /\ pc' = "crash"
    /\ UNCHANGED <<variant, text, serials, argSerial, ctx>>

\* whether the branch of a v1.2/ai handler skips the closing pause
Continues(v) == v # "v12"

\* a toggle that sets the flag and never clears it
ToggleSetsOnly ==
    /\ pc = "menu"
    /\ \E raw \in MenuInputs :
        /\ Choice(raw) = "d"
        /\ ctx' = [ctx EXCEPT !.dry_run = TRUE]
        /\ action' = "toggle"
        /\ inputs' = <<In("menu", raw)>>
        /\ pc' = "after"
        /\ UNCHANGED <<variant, text, serials, argSerial, calls, printed, fs, exc>>

Toggle ==
    /\ pc = "menu"
    /\ \E raw \in MenuInputs :
        /\ Choice(raw) = "d"
        /\ ctx' = [ctx EXCEPT !.dry_run = ~ctx.dry_run]
        /\ action' = "toggle"
        /\ inputs' = <<In("menu", raw)>>
        /\ pc' = "after"
        /\ UNCHANGED <<variant, text, serials, argSerial, calls, printed, fs, exc>>

Quit ==
    /\ pc = "menu"
    /\ \E raw \in MenuInputs :
        /\ Choice(raw) = "q"
        /\ action' = "quit"
        /\ inputs' = <<In("menu", raw)>>
        /\ pc' = "exit"
        /\ UNCHANGED <<variant, text, serials, argSerial, ctx, calls, printed, fs, exc>>

Unknown ==
    /\ pc = "menu"
    /\ \E raw \in MenuInputs :
        /\ Choice(raw) \notin KnownChoices(variant)
        /\ Dispatch("unknown", raw, Eff(<<>>, <<"Unknown choice.">>, <<>>, <<>>, "none"), FALSE)

DoStatus ==
    /\ pc = "menu"
    /\ \E raw \in MenuInputs :
        /\ Choice(raw) = "1"
        /\ \E outs \in StrictOutcomes(2), stdout \in ValueTexts :
            Dispatch("status", raw, action_status(outs, stdout), variant = "v01")

DoReport ==
    /\ pc = "menu"
    /\ \E raw \in MenuInputs :
        /\ Choice(raw) = "2"
        /\ \E outs \in StrictOutcomes(7), stdout \in ValueTexts :
            Dispatch("report", raw, action_report(variant, ctx, outs, stdout), variant = "v01")

DoRebootBootloader ==
    /\ pc = "menu"
    /\ \E raw \in MenuInputs :
        /\ Choice(raw) = "3"
        /\ \E outcome \in CaptureOutcomes, stdout \in ValueTexts :
            Dispatch("reboot", raw, action_reboot_bootloader(variant, ctx, outcome, stdout),
                     \/ variant = "v01"
                     \/ variant = "ai" /\ Truthy(ctx.serial))

DoLogcatLab ==
    /\ pc = "menu"
    /\ \E raw \in MenuInputs :
        /\ Choice(raw) = "4"
        /\ \E rawChoice \in LogMenuInputs :
            \E outcome \in (IF LogcatStreams(variant, LogMode(variant, Choice(rawChoice)))
                            THEN StreamOutcomes ELSE CaptureOutcomes),
               answer \in LogAnswers, stdout \in LogTexts :
                Dispatch("logcat", raw,
                         action_logcat_lab(variant, ctx, rawChoice, answer, outcome, stdout),
                         Continues(variant))

DoDeviceSummary ==
    /\ pc = "menu" /\ variant = "ai"
    /\ \E raw \in MenuInputs :
        /\ Choice(raw) = "5"
        /\ \E outs \in StrictOutcomes(7), stdout \in ValueTexts :
            Dispatch("summary", raw, action_device_summary(ctx, outs, stdout), TRUE)

DoScreenrecord ==
    /\ pc = "menu" /\ variant = "ai"
    /\ \E raw \in MenuInputs :
        /\ Choice(raw) = "6"
        /\ \E dur \in DurInputs, outs \in ScreenrecordOutcomes :
            Dispatch("screenrecord", raw, action_screenrecord(ctx, dur, outs, <<"o">>), TRUE)

DoForegroundApp ==
    /\ pc = "menu" /\ variant = "ai"
    /\ \E raw \in MenuInputs :
        /\ Choice(raw) = "7"
        /\ \E outs \in StrictOutcomes(2), stdout \in DumpsysTexts :
            Dispatch("foreground", raw, action_foreground_app(ctx, outs, stdout), TRUE)

DoInstallApk ==
    /\ pc = "menu" /\ variant = "ai"
    /\ \E raw \in MenuInputs :
        /\ Choice(raw) = "8"
        /\ \E apk \in TextAnswers, host \in HostFileStates, outcome \in CaptureOutcomes,
              stdout \in ValueTexts :
            Dispatch("install", raw, action_install_apk(ctx, apk, host, outcome, stdout), TRUE)

DoClearAppData ==
    /\ pc = "menu" /\ variant = "ai"
    /\ \E raw \in MenuInputs :
        /\ Choice(raw) = "9"
        /\ \E pkg \in TextAnswers, outcome \in CaptureOutcomes, stdout \in ValueTexts :
            Dispatch("clear", raw, action_clear_app_data(ctx, pkg, outcome, stdout), TRUE)

DoOpenUrl ==
    /\ pc = "menu" /\ variant = "ai"
    /\ \E raw \in MenuInputs :
        /\ Choice(raw) = "u"
        /\ \E url \in TextAnswers, outcome \in CaptureOutcomes, stdout \in ValueTexts :
            Dispatch("url", raw, action_open_url(ctx, url, outcome, stdout), TRUE)

DoScreenshot ==
    /\ pc = "menu" /\ variant = "ai"
    /\ \E raw \in MenuInputs :
        /\ Choice(raw) = "s"
        /\ \E outcome \in RawOutcomes, stdout \in ValueTexts :
            Dispatch("screenshot", raw, action_screenshot(ctx, outcome, stdout), TRUE)

DoFastbootGetvarAll ==
    /\ pc = "menu" /\ variant = "ai"
    /\ \E raw \in MenuInputs :
        /\ Choice(raw) = "fa"
        /\ \E outcome \in CaptureOutcomes, stdout \in ValueTexts :
            Dispatch("getvar", raw, action_fastboot_getvar_all(ctx, outcome, stdout), TRUE)

DoFastbootRebootMenu ==
    /\ pc = "menu" /\ variant = "ai"
    /\ \E raw \in MenuInputs :
        /\ Choice(raw) = "fr"
        /\ \E rawChoice \in FastbootMenuInputs, outcome \in CaptureOutcomes,
              stdout \in ValueTexts :
            Dispatch("fbreboot", raw,
                     action_fastboot_reboot_menu(ctx, rawChoice, outcome, stdout), TRUE)

Next ==
    \/ Startup
    \/ LoopBack
    \/ Toggle
    \/ Quit
    \/ Unknown
    \/ DoStatus
    \/ DoReport
    \/ DoRebootBootloader
    \/ DoLogcatLab
    \/ DoDeviceSummary
    \/ DoScreenrecord
    \/ DoForegroundApp
    \/ DoInstallApk
    \/ DoClearAppData
    \/ DoOpenUrl
    \/ DoScreenshot
    \/ DoFastbootGetvarAll
    \/ DoFastbootRebootMenu

Spec == Init /\ [][Next]_vars

\* The loop under the scheduling the program has: one thread, so that once
\* an iteration has ended, its prompts answered and its children ended, the
\* `while True` goes on to the next iteration and shows the menu.
SpecLive == Init /\ [][Next]_vars /\ WF_vars(LoopBack)

-----------------------------------------------------------------------------
(* parse_adb_devices on its own: every text of up to MaxLines lines drawn  *)
(* from LinePool, through each variant's parser.                           *)

LinePool ==
    { <<>>,
      <<" ", "\t">>,
      cList,
      <<"A", "1", "\t">> \o cDevice,
      <<" ", "B", "2", " ", " ">> \o cDevice \o <<" ", "u", " ">>,
      <<"C", "3", " ">> \o cOffline,
      <<"D", "4">>,
      cDevice \o <<" ">> \o cDevice,
      <<"E", "5", " ">> \o cDevice \o <<"s">> }

ParseTexts == {JoinNlChars(ls) : ls \in SeqsUpTo(LinePool, MaxLines)}

InitParse ==
    /\ variant \in Variants
    /\ text \in ParseTexts
    /\ argSerial = None
    /\ serials = <<>>
    /\ pc = "parse"
    /\ ctx = Ctx(None)
    /\ action = "none"
    /\ inputs = <<>>
    /\ calls = <<>>
    /\ printed = <<>>
    /\ fs = <<>>
    /\ exc = "none"

ApplyParse ==
    /\ pc = "parse"
    /\ serials' = parse_adb_devices(variant, text)
    /\ pc' = "parsed"
    /\ UNCHANGED <<variant, text, argSerial, ctx, action, inputs, calls, printed, fs, exc>>

NextParse == ApplyParse

SpecParse == InitParse /\ [][NextParse]_vars

-----------------------------------------------------------------------------
(* The security-denial filter on its own, over texts of a few log lines.   *)

MaxLogLines == 3

cHello == <<"[", "t", "i", "m", "e", "]", " ", "T", "a", "g", "A", ":", " ", "h", "e", "l", "l", "o">>
cDenied == <<"[", "t", "i", "m", "e", "]", " ", "T", "a", "g", "A", ":", " ", "a", "v", "c", ":", " ", "d", "e", "n", "i", "e", "d", " ", "{", ".", ".", ".", "}">>

LogLinePool ==
    { <<>>,
      cHello,
      cDenied,
      <<"A", "V", "C", ":", " ", "x">>,
      <<"x", " ", "A", "v", "c", ":">>,
      <<"a", "v", "c">>,
      <<"a", "v", " ", "c", ":">> }

\* the captured text, with or without a final newline
FilterTexts ==
    {JoinNlChars(ls) \o nl : ls \in SeqsUpTo(LogLinePool, MaxLogLines), nl \in {<<>>, <<"\n">>}}

InitFilter ==
    /\ variant \in Variants
    /\ text \in FilterTexts
    /\ argSerial = None
    /\ serials = <<>>
    /\ pc = "filter"
    /\ ctx = Ctx(None)
    /\ action = "none"
    /\ inputs = <<>>
    /\ calls = <<>>
    /\ printed = <<>>
    /\ fs = <<>>
    /\ exc = "none"

\* out = "\n".join(...); print(out)
ApplyFilter ==
    /\ pc = "filter"
    /\ printed' = <<Str(AvcFilter(text))>>
    /\ pc' = "filtered"
    /\ UNCHANGED <<variant, text, argSerial, serials, ctx, action, inputs, calls, fs, exc>>

NextFilter == ApplyFilter

SpecFilter == InitFilter /\ [][NextFilter]_vars

-----------------------------------------------------------------------------
(* The menu renderer.  box is applied to a list of labels and a title; the *)
(* arguments are kept in inputs (the title first), the result in text.     *)

MaxLabels == 2
MaxLabelLen == 2

\* c * n
Repeat(c, n) == [i \in 1..n |-> c]

\* an ljust that adds no padding
LjustUnpadded(s, w, fill) == s

\* s.ljust(w, fill)
Ljust(s, w, fill) == IF Len(s) >= w THEN s ELSE s \o Repeat(fill, w - Len(s))

\* max([len(s) for s in lines] + [len(title)]) if (lines or title) else 0
BoxWidth(lines, title) ==
    IF lines = <<>> /\ title = <<>> THEN 0
    ELSE LET lens == {Len(lines[i]) : i \in 1..Len(lines)} \cup {Len(title)}
         IN  CHOOSE m \in lens : \A n \in lens : n <= m

\* box(lines, title=title)
box(lines, title) ==
    LET width == BoxWidth(lines, title)
        border == <<"+">> \o Repeat("-", width + 2) \o <<"+">>
        top == IF title # <<>>
               THEN <<"+">> \o Ljust(<<" ">> \o title, width + 2, "-") \o <<"+">>
               ELSE border
        rows == [i \in 1..Len(lines) |->
                    <<"|", " ">> \o Ljust(lines[i], width, " ") \o <<" ", "|">>]
    IN  JoinNlChars(<<top>> \o rows \o <<border>>)

LabelAlphabet == {"a", "\n"}
Labels == SeqsUpTo(LabelAlphabet, MaxLabelLen)

InitBox ==
    /\ variant \in Variants
    /\ inputs \in {<<In("title", title)>> \o [i \in 1..Len(ls) |-> In("label", ls[i])] :
                      title \in Labels, ls \in SeqsUpTo(Labels, MaxLabels)}
    /\ text = <<>>
    /\ argSerial = None
    /\ serials = <<>>
    /\ pc = "box"
    /\ ctx = Ctx(None)
    /\ action = "none"
    /\ calls = <<>>
    /\ printed = <<>>
    /\ fs = <<>>
    /\ exc = "none"

ApplyBox ==
    /\ pc = "box"
    /\ text' = box([i \in 1..(Len(inputs) - 1) |-> inputs[i + 1].raw], inputs[1].raw)
    /\ pc' = "boxed"
    /\ UNCHANGED <<variant, argSerial, serials, ctx, action, inputs, calls, printed, fs, exc>>

NextBox == ApplyBox

SpecBox == InitBox /\ [][NextBox]_vars

-----------------------------------------------------------------------------
(* Vocabulary of the properties.                                           *)

\* a loop iteration (or the startup) has run to its end, normally or not
Finished == pc \in {"after", "crash"}

\* the actions that act on the selected device
DeviceScoped ==
    {"report", "reboot", "logcat", "summary", "foreground", "install", "clear",
     "url", "screenshot", "screenrecord"}

PausePrompts == {"menu", "Press Enter...", "Press Enter to continue..."}

Wrote == \E i \in 1..Len(fs) : fs[i].op = "write"

\* the raw answer given at a prompt of this iteration
Answered(prompt, raw) == \E i \in 1..Len(inputs) : inputs[i] = In(prompt, raw)

\* raw is word, with nothing but whitespace around it
IsPadded(raw, word) ==
    \E i \in 1..(Len(raw) + 1) :
        /\ i + Len(word) - 1 <= Len(raw)
        /\ SubSeq(raw, i, i + Len(word) - 1) = word
        /\ \A j \in 1..Len(raw) : (j < i \/ j >= i + Len(word)) => raw[j] \in Whitespace

-----------------------------------------------------------------------------
(* C1: with the dry-run flag set and a device bound, a device-scoped       *)
(* action invokes no child process.  Stated for v1.2 and ai, the variants  *)
(* whose handlers the claim lists.                                         *)
C1_DryRunInvokesNoChild ==
    (/\ variant \in {"v12", "ai"}
     /\ Finished /\ action \in DeviceScoped /\ ctx.dry_run /\ Truthy(ctx.serial))
        => calls = <<>>

(* C2: in the regex sub-mode of the log menu, a pattern that does not      *)
(* compile means the log command is never invoked and no file is written.  *)
C2_BadRegexRunsNothing ==
    \A raw \in LogAnswers :
        (/\ Finished /\ action = "logcat"
         /\ Answered("regex", raw)
         /\ PyStrip(raw) # <<>>
         /\ ~ReCompiles(PyStrip(raw)))
            => (calls = <<>> /\ ~Wrote)

(* C3: a strict non-zero exit or a timeout of any child, at startup or in  *)
(* a handler, never ends the process.  Stated for ai, whose menu() has the *)
(* except clauses.                                                         *)
C3_ChildFailureNeverFatal ==
    (/\ variant = "ai"
     /\ \E i \in 1..Len(calls) : Raised(calls[i]) \in {"CalledProcessError", "TimeoutExpired"})
        => pc # "crash"

(* C4: with no device selected, every device-scoped action prints the      *)
(* rejection and returns to the menu: no child, no parameter prompt, no    *)
(* file-system effect.                                                     *)
C4_NoSerialRejects ==
    (Finished /\ action \in DeviceScoped /\ ~Truthy(ctx.serial))
        => /\ pc = "after"
           /\ calls = <<>>
           /\ fs = <<>>
           /\ exc = "none"
           /\ printed \in {<<"No ADB serial selected.">>,
                           <<"No ADB serial selected (device must be authorized and in Android).">>,
                           <<"No ADB serial selected (device must not be authorized and in Android).">>}
           /\ \A i \in 1..Len(inputs) : inputs[i].prompt \in PausePrompts

C4_Witness ==
    /\ pc = "after" /\ action = "screenrecord" /\ ~Truthy(ctx.serial)
    /\ printed = <<"No ADB serial selected.">>


-----------------------------------------------------------------------------
(* The device list read off the text by position, without scanning: where  *)
(* lines and tokens start and end.                                         *)

\* positions at which a line of t starts
LineStarts(t) ==
    {a \in 1..Len(t) : a = 1 \/ t[a - 1] = "\n"}

\* the line of t starting at a, without its newline
LineAt(t, a) ==
    LET ends == {e \in a..Len(t) : t[e] = "\n"}
        stop == IF ends = {} THEN Len(t) + 1
                ELSE CHOOSE e \in ends : \A f \in ends : e <= f
    IN  SubSeq(t, a, stop - 1)

\* positions at which a whitespace-separated token of ln starts
TokenStarts(ln) ==
    {a \in 1..Len(ln) : ln[a] \notin Whitespace /\ (a = 1 \/ ln[a - 1] \in Whitespace)}

\* the token of ln starting at a
TokenAt(ln, a) ==
    LET stops == {e \in a..Len(ln) : ln[e] \in Whitespace}
        stop == IF stops = {} THEN Len(ln) + 1
                ELSE CHOOSE e \in stops : \A f \in stops : e <= f
    IN  Str(SubSeq(ln, a, stop - 1))

\* the k-th smallest element of a set of numbers
Nth(S, k) == CHOOSE x \in S : Cardinality({y \in S : y < x}) = k - 1

\* the k-th token of ln, "" if it has fewer
Token(ln, k) ==
    IF Cardinality(TokenStarts(ln)) < k THEN "" ELSE TokenAt(ln, Nth(TokenStarts(ln), k))

\* starts of the non-blank lines after the first non-blank line whose second
\* token is the literal device
QualifyingStarts(t) ==
    LET nonblank == {a \in LineStarts(t) : TokenStarts(LineAt(t, a)) # {}}
    IN  {a \in nonblank : /\ \E h \in nonblank : h < a
                          /\ Token(LineAt(t, a), 2) = "device"}

ExpectedSerials(t) ==
    [k \in 1..Cardinality(QualifyingStarts(t)) |->
        Token(LineAt(t, Nth(QualifyingStarts(t), k)), 1)]

(* C5: parse_adb_devices skips the first non-blank line and returns, in    *)
(* order, the first token of every later non-blank line whose second token *)
(* is exactly device, and nothing else.                                    *)
C5_ParseExact ==
    pc = "parsed" => serials = ExpectedSerials(text)

C5_Witness ==
    /\ pc = "parsed"
    /\ serials = <<"A1", "B2">>
    /\ Contains(text, cOffline)


-----------------------------------------------------------------------------
\* the selector ran and its device-list query succeeded
Selected == action = "startup" /\ calls # <<>> /\ calls[1].outcome = "ok"

(* C6: with zero qualifying devices pick_adb_serial returns no selection,  *)
(* with exactly one it returns that one; in both cases it reads no         *)
(* operator input and raises nothing.                                      *)
C6_NoPromptUnlessSeveral ==
    (Selected /\ Len(serials) <= 1)
        => /\ inputs = <<>>
           /\ printed = <<>>
           /\ exc = "none"
           /\ pc = "after"
           /\ ctx.serial = (IF serials = <<>> THEN None ELSE Some(serials[1]))

C6_Witness ==
    /\ Selected /\ pc = "after"
    /\ serials = <<"A1">>
    /\ ctx.serial = Some("A1")
    /\ inputs = <<>>

\* the number a response denotes when it is a plain decimal numeral, else -1
Numeral(resp) == IF AllDecimal(resp) THEN DigitsVal(resp) ELSE 0 - 1

(* C7: with several qualifying devices, a response that is an integer k in *)
(* 1..N selects the k-th listed identifier; every other response selects   *)
(* nothing, raises nothing, and the program goes on to the main menu.      *)
C7_PickByIndex ==
    (variant \in {"v12", "ai"} /\ Selected /\ Len(serials) > 1)
        => /\ Len(inputs) = 1
           /\ LET k == Numeral(PyStrip(inputs[1].raw))
              IN  ctx.serial = (IF 1 <= k /\ k <= Len(serials) THEN Some(serials[k]) ELSE None)
           /\ exc = "none"
           /\ pc = "after"

\* the screen-recording command of this iteration was run
Recorded == action = "screenrecord" /\ calls # <<>>

(* C8: the duration passed to the remote screenrecord command is an        *)
(* integer in 1..180: an integer answer d gives min(max(d, 1), 180), an    *)
(* empty or non-numeric answer gives 15.                                   *)
C8_DurationClamped ==
    Recorded =>
        LET given == PyStrip(inputs[2].raw)
            d == PyInt(given)
            \* adb -s <serial> shell screenrecord --time-limit <duration> <path>
            passed == calls[1].cmd[7]
        IN  /\ inputs[2].prompt = "duration"
            /\ \E n \in 1..180 : passed = PyStr(n)
            /\ d.ok /\ d.val < 1 => passed = "1"
            /\ d.ok /\ d.val > 180 => passed = "180"
            /\ d.ok /\ d.val \in 1..180 => passed = PyStr(d.val)
            /\ ~d.ok => passed = "15"

C8_Witness ==
    /\ Recorded
    /\ inputs[2].raw = <<"9", "9", "9">>
    /\ calls[1].cmd[7] = "180"

IsRecordCmd(cmd) == Len(cmd) = 8 /\ SubSeq(cmd, 4, 6) = <<"shell", "screenrecord", "--time-limit">>
IsPullCmd(cmd) == Len(cmd) = 6 /\ cmd[4] = "pull"
IsRemoveCmd(cmd) == Len(cmd) = 7 /\ SubSeq(cmd, 4, 6) = <<"shell", "rm", "-f">>

(* C9: outside dry-run a screen recording issues record, then pull to the  *)
(* timestamped host path, then remote delete, in that order; the delete is *)
(* issued exactly when the pull exited with status 0.                      *)
C9_RecordPullDelete ==
    Recorded =>
        /\ ~ctx.dry_run
        /\ Len(calls) <= 3
        /\ IsRecordCmd(calls[1].cmd)
        /\ Len(calls) >= 2 =>
              /\ IsPullCmd(calls[2].cmd)
              /\ calls[2].cmd[5] = calls[1].cmd[8]
              /\ calls[2].cmd[6] = MEDIA_DIR \o "/screenrecord-" \o ctx.serial[1] \o "-" \o TS \o ".mp4"
        /\ Len(calls) = 3 <=> (Len(calls) >= 2 /\ calls[2].outcome = "ok")
        /\ Len(calls) = 3 =>
              /\ IsRemoveCmd(calls[3].cmd)
              /\ calls[3].cmd[7] = calls[1].cmd[8]

C9_Witness ==
    /\ Recorded /\ Len(calls) = 3
    /\ calls[2].outcome = "ok"
    /\ IsRemoveCmd(calls[3].cmd)

IsClearCmd(cmd) == cmd[Len(cmd)] = "-c" /\ \E i \in 1..Len(cmd) : cmd[i] = "logcat"

(* C10: logcat -c is invoked only after a confirmation that, stripped, is  *)
(* exactly YES; after any other confirmation no child is invoked.          *)
C10_ClearNeedsYES ==
    (Finished /\ action = "logcat") =>
        /\ (\E i \in 1..Len(calls) : IsClearCmd(calls[i].cmd))
              => \E raw \in LogAnswers :
                    Answered("confirm", raw) /\ IsPadded(raw, <<"Y", "E", "S">>)
        /\ \A raw \in LogAnswers :
              (Answered("confirm", raw) /\ ~IsPadded(raw, <<"Y", "E", "S">>))
                  => calls = <<>>

C10_Witness ==
    /\ Finished /\ action = "logcat"
    /\ Answered("confirm", <<" ", "Y", "E", "S", "\t">>)
    /\ Len(calls) = 1 /\ IsClearCmd(calls[1].cmd)

-----------------------------------------------------------------------------
(* C11: every child that captures output runs under a finite timeout, a    *)
(* timeout is reported as a failure distinct from a non-zero exit, and the *)
(* only child run without a timeout is the streamed live log follow.       *)
C11_OnlyFollowLacksTimeout ==
    \A i \in 1..Len(calls) :
        /\ calls[i].mode # "stream" => calls[i].timeout > 0
        /\ calls[i].timeout = 0 => (action = "logcat" /\ calls[i].mode = "stream")
        /\ calls[i].outcome = "timeout" => Raised(calls[i]) = "TimeoutExpired"
        /\ (calls[i].outcome = "nonzero" /\ calls[i].check)
              => Raised(calls[i]) = "CalledProcessError"

\* the live-follow sub-mode of the log menu was chosen and its command run
LiveFollow ==
    /\ action = "logcat"
    /\ calls # <<>>
    /\ \E i \in 1..Len(inputs) :
          inputs[i].prompt = "logcat" /\ LogMode(variant, Choice(inputs[i].raw)) = "2"

(* C12: in every variant the live follow runs in stream mode: not          *)
(* captured, no timeout, a non-zero exit is no failure, nothing is printed *)
(* or saved from a buffer afterwards; no other action streams.             *)
C12_FollowStreams ==
    /\ LiveFollow =>
          /\ Len(calls) = 1
          /\ calls[1].mode = "stream"
          /\ calls[1].timeout = 0
          /\ calls[1].outcome = "nonzero" => (exc = "none" /\ pc = "after")
          /\ printed = <<"", "LOGCAT LAB", "Streaming logcat. Ctrl+C to stop.">>
          /\ ~Wrote
    /\ (\E i \in 1..Len(calls) : calls[i].mode = "stream") => LiveFollow

\* the handlers that run their commands with check=False
NonStrictActions == {"install", "clear", "url", "screenrecord", "getvar", "fbreboot"}

\* printed holds the lines a, b one directly after the other
PrintedPair(a, b) == \E j \in 1..(Len(printed) - 1) : printed[j] = a /\ printed[j + 1] = b

Printed(ln) == \E j \in 1..Len(printed) : printed[j] = ln

-----------------------------------------------------------------------------
\* the report handler ran with a device bound and every query succeeded
ReportDone ==
    /\ Finished /\ action = "report"
    /\ Truthy(ctx.serial)
    /\ calls # <<>>
    /\ exc = "none"

Writes == SelectSeq(fs, LAMBDA f : f.op = "write")

\* the property a query asks for: adb -s <serial> shell getprop <key>
QueriedKey(call) == call.cmd[6]
IsQuery(call) == Len(call.cmd) = 6 /\ call.cmd[5] = "getprop"

\* the characters of a property key
KeyText(key) ==
    CASE key = "ro.product.model" ->
           <<"r", "o", ".", "p", "r", "o", "d", "u", "c", "t", ".", "m", "o", "d", "e", "l">>
      [] key = "ro.build.version.release" ->
           <<"r", "o", ".", "b", "u", "i", "l", "d", ".", "v", "e", "r", "s", "i", "o", "n", ".", "r", "e", "l", "e", "a", "s", "e">>
      [] key = "ro.build.version.security_patch" ->
           <<"r", "o", ".", "b", "u", "i", "l", "d", ".", "v", "e", "r", "s", "i", "o", "n", ".", "s", "e", "c", "u", "r", "i", "t", "y", "_", "p", "a", "t", "c", "h">>
      [] key = "ro.build.fingerprint" ->
           <<"r", "o", ".", "b", "u", "i", "l", "d", ".", "f", "i", "n", "g", "e", "r", "p", "r", "i", "n", "t">>
      [] key = "ro.product.cpu.abi" ->
           <<"r", "o", ".", "p", "r", "o", "d", "u", "c", "t", ".", "c", "p", "u", ".", "a", "b", "i">>
      [] key = "ro.boot.verifiedbootstate" ->
           <<"r", "o", ".", "b", "o", "o", "t", ".", "v", "e", "r", "i", "f", "i", "e", "d", "b", "o", "o", "t", "s", "t", "a", "t", "e">>
      [] key = "ro.boot.flash.locked" ->
           <<"r", "o", ".", "b", "o", "o", "t", ".", "f", "l", "a", "s", "h", ".", "l", "o", "c", "k", "e", "d">>
      [] key = "ro.boot.vbmeta.device_state" ->
           <<"r", "o", ".", "b", "o", "o", "t", ".", "v", "b", "m", "e", "t", "a", ".", "d", "e", "v", "i", "c", "e", "_", "s", "t", "a", "t", "e">>
      [] OTHER -> <<>>

\* the label the report writes a property under
ShortLabel(key) ==
    CASE key = "ro.product.model" ->
           <<"m", "o", "d", "e", "l">>
      [] key = "ro.build.version.release" ->
           <<"a", "n", "d", "r", "o", "i", "d">>
      [] key = "ro.build.version.security_patch" ->
           <<"s", "e", "c", "u", "r", "i", "t", "y", "_", "p", "a", "t", "c", "h">>
      [] key = "ro.build.fingerprint" ->
           <<"f", "i", "n", "g", "e", "r", "p", "r", "i", "n", "t">>
      [] key = "ro.product.cpu.abi" ->
           <<"a", "b", "i">>
      [] key = "ro.boot.verifiedbootstate" ->
           <<"v", "e", "r", "i", "f", "i", "e", "d", "b", "o", "o", "t", "s", "t", "a", "t", "e">>
      [] key = "ro.boot.flash.locked" ->
           <<"f", "l", "a", "s", "h", ".", "l", "o", "c", "k", "e", "d">>
      [] key = "ro.boot.vbmeta.device_state" ->
           <<"v", "b", "m", "e", "t", "a", ".", "d", "e", "v", "i", "c", "e", "_", "s", "t", "a", "t", "e">>
      [] OTHER -> <<>>

ReportNamed ==
    /\ Len(Writes) = 1
    /\ Writes[1].path = REPORT_DIR \o "/report-" \o ctx.serial[1] \o "-" \o TS \o ".txt"

(* C14 as stated: a successful report writes exactly one file into the     *)
(* reports directory, named with the device identifier and a timestamp,    *)
(* whose content includes every queried property key.                      *)
C14_ReportHasKeys ==
    ReportDone =>
        /\ ReportNamed
        /\ \A i \in 1..Len(calls) :
              IsQuery(calls[i]) => Contains(Writes[1].content, KeyText(QueriedKey(calls[i])))

(* C14 amended: a successful report writes exactly one file into the       *)
(* reports directory, named with the device identifier and a timestamp;    *)
(* for every queried property its content has one line made of the         *)
(* property's short label and the value returned, and the property key     *)
(* itself is not in the file.                                              *)
C14_ReportLabelled ==
    ReportDone =>
        /\ ReportNamed
        /\ \E i \in 1..Len(calls) : IsQuery(calls[i])
        /\ \A i \in 1..Len(calls) :
              IsQuery(calls[i]) =>
                  /\ ShortLabel(QueriedKey(calls[i])) # <<>>
                  /\ Contains(Writes[1].content,
                              <<"\n">> \o ShortLabel(QueriedKey(calls[i])) \o <<":", " ">>
                                \o PyStrip(calls[i].stdout) \o <<"\n">>)
                  /\ ~Contains(Writes[1].content, KeyText(QueriedKey(calls[i])))

C14_Witness ==
    /\ ReportDone /\ variant = "ai"
    /\ Len(Writes) = 1
    /\ Contains(Writes[1].content, <<"a", "b", "i", ":", " ", "v", "1", "\n">>)

-----------------------------------------------------------------------------
\* the line holds the marker avc: in any mix of upper and lower case
HasMarker(ln) ==
    \E i \in 1..(Len(ln) - 3) :
        /\ ln[i] \in {"a", "A"}
        /\ ln[i + 1] \in {"v", "V"}
        /\ ln[i + 2] \in {"c", "C"}
        /\ ln[i + 3] = ":"

MarkedStarts(t) == {a \in LineStarts(t) : HasMarker(LineAt(t, a))}

\* the marked lines of t, in order and as they stand, one per line
ExpectedDenials(t) ==
    JoinNlChars([k \in 1..Cardinality(MarkedStarts(t)) |->
                    LineAt(t, Nth(MarkedStarts(t), k))])

(* C15: the security-denial filter outputs exactly the captured lines that *)
(* contain avc: in any case, in their order and unmodified; of the lines   *)
(* '[time] TagA: hello' and '[time] TagA: avc: denied {...}' only the      *)
(* second is output.                                                       *)
C15_AvcFilterExact ==
    pc = "filtered" =>
        /\ printed = <<Str(ExpectedDenials(text))>>
        /\ text = cHello \o <<"\n">> \o cDenied => printed = <<Str(cDenied)>>

C15_Witness ==
    /\ pc = "filtered"
    /\ text = cHello \o <<"\n">> \o cDenied
    /\ printed = <<"[time] TagA: avc: denied {...}">>

-----------------------------------------------------------------------------
\* this step reads the toggle token at the main menu
ToggleChosen ==
    /\ pc = "menu"
    /\ inputs' # <<>>
    /\ inputs'[1].prompt = "menu"
    /\ Choice(inputs'[1].raw) = "d"

(* C16: the selected device is fixed at startup (one identifier or none)   *)
(* and never changes afterwards; the dry-run flag starts unset, is flipped *)
(* by every toggle and by nothing else, so it is set exactly after an odd  *)
(* number of toggles; the toggle invokes no child.                         *)
C16_SessionFrame ==
    [][ /\ Len(ctx'.serial) <= 1
        /\ pc = "boot" => ~ctx'.dry_run
        /\ pc # "boot" => ctx'.serial = ctx.serial
        /\ ToggleChosen => (ctx'.dry_run = ~ctx.dry_run /\ calls' = <<>>)
        /\ (pc # "boot" /\ ~ToggleChosen) => ctx'.dry_run = ctx.dry_run ]_vars

\* the flag is unset again after a second toggle, the device still bound
C16_Witness ==
    /\ pc = "after" /\ action = "toggle"
    /\ ~ctx.dry_run
    /\ ctx.serial = Some("A1")
    /\ calls = <<>>

-----------------------------------------------------------------------------
AskedToPick(ins) == \E i \in 1..Len(ins) : ins[i].prompt = "Pick one: "

(* C17: a non-empty identifier given as the startup argument becomes the   *)
(* selected device without the device-list command being invoked and       *)
(* without a selection prompt; the selector runs only when no identifier   *)
(* is given, and then once, at startup.                                    *)
C17_SerialArgBypasses ==
    /\ [](action = "startup" =>
            /\ Truthy(argSerial) =>
                  /\ ctx.serial = argSerial
                  /\ calls = <<>> /\ inputs = <<>> /\ printed = <<>>
                  /\ pc = "after"
            /\ ~Truthy(argSerial) =>
                  /\ Len(calls) = 1
                  /\ calls[1].cmd = <<"adb", "devices", "-l">>)
    /\ [][ /\ pc' # "boot"
           /\ pc # "boot" => ~AskedToPick(inputs') ]_vars

C17_Witness ==
    /\ action = "startup" /\ pc = "after"
    /\ argSerial = Some("S9")
    /\ ctx.serial = Some("S9")
    /\ calls = <<>>

-----------------------------------------------------------------------------
\* the arguments box was applied to
BoxTitle == inputs[1].raw
BoxLabels == [i \in 1..(Len(inputs) - 1) |-> inputs[i + 1].raw]

\* the rows of a text: its lines, in order
Rows(t) == [k \in 1..Cardinality(LineStarts(t)) |-> LineAt(t, Nth(LineStarts(t), k))]

\* W: the greatest length among the labels and the title
WidestArg ==
    LET longer == {Len(BoxTitle)} \cup {Len(BoxLabels[i]) : i \in 1..Len(BoxLabels)}
    IN  CHOOSE m \in longer : \A n \in longer : n <= m

SingleLine(s) == \A i \in 1..Len(s) : s[i] # "\n"
SingleLineArgs == SingleLine(BoxTitle) /\ \A i \in 1..Len(BoxLabels) : SingleLine(BoxLabels[i])

\* the box has one border row, one row per label in order, one border row,
\* all of length W + 4
WellFormedBox ==
    LET rows == Rows(text)
    IN  /\ Len(rows) = Len(BoxLabels) + 2
        /\ \A k \in 1..Len(rows) : Len(rows[k]) = WidestArg + 4
        /\ \A i \in 1..Len(BoxLabels) :
              LET row == rows[i + 1]
              IN  /\ SubSeq(row, 1, 2) = <<"|", " ">>
                  /\ SubSeq(row, 3, 2 + Len(BoxLabels[i])) = BoxLabels[i]
                  /\ \A j \in (3 + Len(BoxLabels[i]))..(Len(row) - 1) : row[j] = " "
                  /\ row[Len(row)] = "|"
        /\ rows[1][1] = "+" /\ rows[Len(rows)] = <<"+">> \o Repeat("-", WidestArg + 2) \o <<"+">>
        /\ (BoxLabels = <<>> /\ BoxTitle = <<>>)
              => text = <<"+", "-", "-", "+", "\n", "+", "-", "-", "+">>

(* C18 as stated: for every list of labels and title, box returns          *)
(* len(labels) + 2 rows, all of length W + 4, one row per label in order;  *)
(* with no labels and no title the two-row box of width 4.                 *)
C18_BoxAnyLabels == pc = "boxed" => WellFormedBox

(* C18 amended: the same, for labels and a title that hold no line break.  *)
C18_BoxSingleLineLabels == (pc = "boxed" /\ SingleLineArgs) => WellFormedBox

C18_Witness ==
    /\ pc = "boxed"
    /\ BoxTitle = <<"a">>
    /\ BoxLabels = << <<>>, <<"a", "a">> >>
    /\ text = <<"+", " ", "a", "-", "-", "+", "\n",
                "|", " ", " ", " ", " ", "|", "\n",
                "|", " ", "a", "a", " ", "|", "\n",
                "+", "-", "-", "-", "-", "+">>

-----------------------------------------------------------------------------
\* the install handler looked at a host path that is missing or unreadable
BadApkPath ==
    /\ Finished /\ action = "install"
    /\ \E i \in 1..Len(fs) : fs[i].op = "exists" /\ fs[i].content \in {"missing", "unreadable"}

(* C19: when the APK path the operator gives is missing or unreadable, the *)
(* install handler reports it and returns without invoking the install     *)
(* command, in dry-run and live mode alike.                                *)
C19_BadPathNeverInstalls ==
    BadApkPath =>
        /\ calls = <<>>
        /\ \E i \in 1..Len(fs) : printed = <<"Not found: " \o fs[i].path>>
        /\ pc = "after"

-----------------------------------------------------------------------------
\* the loop of android-workbench-v1.2.py or android_workbench_ai.py has just
\* handled a main-menu token other than the quit token
TokenHandled == variant # "v01" /\ action \notin {"none", "startup", "quit"}

\* every child of the iteration exited or timed out: none was interrupted
ChildrenEnded == \A i \in 1..Len(calls) : calls[i].outcome # "interrupt"

\* the operator entered the quit token at the main menu
QuitEntered ==
    /\ action = "quit"
    /\ \E i \in 1..Len(inputs) : inputs[i].prompt = "menu" /\ Choice(inputs[i].raw) = "q"

-----------------------------------------------------------------------------
\* the two global device-list queries
IsDeviceList(cmd) == cmd \in {<<"adb", "devices", "-l">>, <<"fastboot", "devices">>}

\* the handler commands of the iteration: every child but the device lists
HandlerCalls == {i \in 1..Len(calls) : ~IsDeviceList(calls[i].cmd)}

(* C21: every command a handler runs for adb or fastboot starts with the   *)
(* executable name, then '-s' and the session's selected device when one   *)
(* is bound, and holds no '-s' at all when none is bound.                  *)
C21_CommandsTargetBoundDevice ==
    action # "startup" =>
        \A i \in HandlerCalls :
            LET cmd == calls[i].cmd
            IN  /\ cmd[1] \in {"adb", "fastboot"}
                /\ IF Truthy(ctx.serial)
                   THEN Len(cmd) > 3 /\ cmd[2] = "-s" /\ cmd[3] = ctx.serial[1]
                   ELSE \A k \in 1..Len(cmd) : cmd[k] # "-s"

\* a fastboot command was run for the bound device
C21_Witness ==
    /\ action = "getvar" /\ Truthy(ctx.serial)
    /\ \E i \in HandlerCalls : calls[i].cmd = <<"fastboot", "-s", ctx.serial[1], "getvar", "all">>

-----------------------------------------------------------------------------
\* the operator interrupted the running live follow
FollowInterrupted ==
    /\ action = "logcat"
    /\ \E i \in 1..Len(calls) : calls[i].mode = "stream" /\ calls[i].outcome = "interrupt"

(* C22: when the operator interrupts a running live follow, the program    *)
(* returns to the main menu and keeps running: the interruption does not   *)
(* end the process.                                                        *)
C22_InterruptReturnsToMenu == FollowInterrupted => (pc = "after" /\ exc = "none")

-----------------------------------------------------------------------------
\* the command has the dump-and-exit flag or the clear flag
ExitsOnItsOwn(cmd) == \E k \in 1..Len(cmd) : cmd[k] \in {"-d", "-c"}

(* C23: every log command run in capture mode, that is every sub-mode but  *)
(* the live follow, carries -d or -c, so that the child ends by itself and *)
(* the action never waits for the capture timeout.                         *)
C23_CapturedLogcatExits ==
    (action = "logcat" /\ ~LiveFollow) =>
        \A i \in 1..Len(calls) :
            calls[i].mode = "capture" => ExitsOnItsOwn(calls[i].cmd)

-----------------------------------------------------------------------------
\* a child of the iteration exited non-zero or timed out
QueryFailed == \E i \in 1..Len(calls) : calls[i].outcome \in {"nonzero", "timeout"}

\* the queries the handler makes before it writes: the properties and `id`
\* for the report, the one dump for the log
QueriesNeeded == IF action = "report" THEN Len(ReportProps(variant)) + 1 ELSE 1

(* C24: the report and the saved log dump are written only after every     *)
(* query of the action has succeeded: when a query exits non-zero or times *)
(* out, no file is written, whole or in part.                              *)
C24_WriteOnlyAfterAllQueries ==
    action \in {"report", "logcat"} =>
        /\ QueryFailed => ~Wrote
        /\ Wrote => /\ Len(calls) = QueriesNeeded
                    /\ \A i \in 1..Len(calls) : calls[i].outcome = "ok"
                    /\ Len(Writes) = 1
                    /\ exc = "none"

\* the report's last query failed after the others had succeeded: the
\* directory is there and no file is
C24_Witness ==
    /\ action = "report"
    /\ Len(calls) = QueriesNeeded
    /\ calls[Len(calls)].outcome = "nonzero"
    /\ fs = <<Mkdir(REPORT_DIR)>>

-----------------------------------------------------------------------------
(* C25: the parse_adb_devices functions of the three variants agree: for   *)
(* every device-list text, the empty text, a lone header, single-token     *)
(* lines and blank lines included, they return the same identifiers in the *)
(* same order.                                                             *)
C25_ParsersAgree ==
    pc = "parsed" =>
        /\ serials = parse_adb_devices_ai(text)
        /\ serials = parse_adb_devices_v12(text)
        /\ serials = parse_adb_devices_v01(text)

\* the first variant parsed a text with a blank line, a single-token line
\* and a connected device after the header
C25_Witness ==
    /\ pc = "parsed" /\ variant = "v01"
    /\ text = JoinNlChars(<<cList, <<>>, <<"D", "4">>, <<"A", "1", "\t">> \o cDevice>>)
    /\ serials = <<"A1">>

-----------------------------------------------------------------------------
FreeTextPrompts == {"tag", "regex", "pkg", "url", "apk"}

\* a free-text parameter prompt was answered with nothing but white space
EmptyFreeText ==
    \E i \in 1..Len(inputs) :
        inputs[i].prompt \in FreeTextPrompts /\ PyStrip(inputs[i].raw) = <<>>

\* a sub-menu was answered with a token it does not know
UnknownSubToken ==
    \E i \in 1..Len(inputs) :
        \/ /\ inputs[i].prompt = "logcat"
           /\ LogMode(variant, Choice(inputs[i].raw)) = "other"
        \/ /\ inputs[i].prompt = "fastboot"
           /\ Choice(inputs[i].raw) \notin {"f1", "f2", "f3", "b"}

(* C26: on an empty or whitespace-only answer to a free-text prompt (tag,  *)
(* regular expression, package, URL, APK path), or an unrecognised token   *)
(* in the log or the fastboot-reboot sub-menu, the handler returns with no *)
(* child invoked and no file written.                                      *)
C26_EmptyAnswerDoesNothing ==
    (EmptyFreeText \/ UnknownSubToken) =>
        /\ calls = <<>>
        /\ fs = <<>>
        /\ exc = "none"
        /\ pc = "after"

\* the package prompt was answered with white space only, in live mode
C26_Witness ==
    /\ action = "clear" /\ ~ctx.dry_run
    /\ \E i \in 1..Len(inputs) : inputs[i] = In("pkg", <<" ", "\t">>)
    /\ calls = <<>>

=============================================================================
